---- MODULE Spec2Model ----
(***************************************************************************)
(* The streaming relay of the BFF (src/bff/app/services/agent_client.py):  *)
(* invoke_stream (the consumer, an async generator), the producer task     *)
(* _process_bedrock_stream, the SSE chunk parser _process_event and the    *)
(* asyncio queue of StreamingCallbackHandler that joins them.              *)
(*                                                                         *)
(* Text is a sequence of tokens.  A token is either a literal piece of     *)
(* text, Lit(s), or one complete JSON document, carried as its decoded     *)
(* value (JDict, JStr, JNum, JNull).  A chunk boundary may fall between    *)
(* any two tokens, in particular between the two newlines of a delimiter.  *)
(* A Python str held by the program is such a token sequence as well; the  *)
(* empty str is << >>.                                                     *)
(***************************************************************************)
EXTENDS Integers, Sequences, FiniteSets, TLC

-----------------------------------------------------------------------------
(* Text and JSON values *)

Lit(s) == [c |-> s]
NL == Lit("\n")
SP == Lit(" ")
EV == Lit("event:")
DA == Lit("data:")
Str(s) == <<Lit(s)>>

EmptyDict == [k \in {} |-> TRUE]
JDict(d) == [jd |-> d]
JStr(s) == [js |-> s]
JNum(n) == [ji |-> n]
JNull == [jn |-> "null"]
JList(l) == [jl |-> l]
JBool(b) == [jb |-> b]

IsDict(v) == "jd" \in DOMAIN v
IsStr(v) == "js" \in DOMAIN v
IsJson(t) ==
    \/ IsDict(t) \/ IsStr(t) \/ "ji" \in DOMAIN t \/ "jn" \in DOMAIN t
    \/ "jl" \in DOMAIN t \/ "jb" \in DOMAIN t

\* "is not None" in the place of truthiness
TruthyNotNone(v) == v # JNull

\* Python truthiness of a decoded JSON value.
Truthy(v) ==
    IF IsDict(v) THEN DOMAIN v.jd # {}
    ELSE IF IsStr(v) THEN v.js # << >>
    ELSE IF "ji" \in DOMAIN v THEN v.ji # 0
    ELSE IF "jl" \in DOMAIN v THEN v.jl # << >>
    ELSE IF "jb" \in DOMAIN v THEN v.jb
    ELSE FALSE

IsSpace(t) == t = NL \/ t = SP

RECURSIVE LStrip(_)
LStrip(s) == IF s # << >> /\ IsSpace(Head(s)) THEN LStrip(Tail(s)) ELSE s

RECURSIVE RStrip(_)
RStrip(s) ==
    IF s # << >> /\ IsSpace(s[Len(s)]) THEN RStrip(SubSeq(s, 1, Len(s) - 1)) ELSE s

\* str.strip()
Strip(s) == RStrip(LStrip(s))

\* str.startswith for a one-token prefix
StartsWith(s, t) == s # << >> /\ Head(s) = t

\* index of the first "\n\n" in s, 0 when there is none
FindDelim(s) ==
    LET I == {i \in 1..(Len(s) - 1) : s[i] = NL /\ s[i + 1] = NL}
    IN IF I = {} THEN 0 ELSE CHOOSE i \in I : \A j \in I : i <= j

\* str.split("\n"): the lines of s
RECURSIVE SplitLines(_)
SplitLines(s) ==
    LET I == {i \in 1..Len(s) : s[i] = NL}
    IN IF I = {} THEN <<s>>
       ELSE LET i == CHOOSE k \in I : \A j \in I : k <= j
            IN <<SubSeq(s, 1, i - 1)>> \o SplitLines(SubSeq(s, i + 1, Len(s)))

\* A JSON document written with a character outside ASCII in it (UTF-8,
\* not escaped) takes two tokens: the bytes up to and including the first
\* byte of that character, and the bytes from its second byte on.
Wide(v) == <<[w1 |-> v], [w2 |-> v]>>
IsWide(t) == Len(t) = 2 /\ "w1" \in DOMAIN t[1] /\ t = Wide(t[1].w1)

\* bytes.decode("utf-8") of one fragment succeeds unless the fragment ends
\* or begins inside a character
Decodes(chunk) ==
    chunk = << >> \/ ("w2" \notin DOMAIN chunk[1] /\ "w1" \notin DOMAIN chunk[Len(chunk)])

\* json.loads: surrounding whitespace is ignored, the rest must be exactly
\* one JSON document; anything else raises.
JsonLoads(s) ==
    LET t == Strip(s)
    IN IF Len(t) = 1 /\ IsJson(t[1]) THEN [ok |-> TRUE, v |-> t[1]]
       ELSE IF IsWide(t) THEN [ok |-> TRUE, v |-> t[1].w1]
       ELSE [ok |-> FALSE, v |-> JNull]

\* json.dumps: one JSON document, newlines inside it escaped
JsonDumps(v) == <<v>>

\* str(x) of a decoded value that is not a str
PyStr(v) == <<[repr |-> v]>>

\* dict.get(key, default)
Get(d, k, default) == IF k \in DOMAIN d THEN d[k] ELSE default

-----------------------------------------------------------------------------
(* Queue items *)

\* StreamEvent(event_type, data), what push_event puts on the queue
StreamEvent(event_type, data) == [event_type |-> event_type, data |-> data]

\* the None that end_streaming puts on the queue
Sentinel == [none |-> TRUE]

\* the text invoke_stream yields for one event
SSE(event_type, data) ==
    <<EV, SP, Lit(event_type), NL, DA, SP>> \o JsonDumps(data) \o <<NL, NL>>

-----------------------------------------------------------------------------
(* _process_event: parse one SSE chunk and push what it maps to *)

\* The loop over the lines of a chunk.  acc holds event_type and
\* event_data; None is << >> for event_type and JNull for event_data (only
\* their truthiness and their equality with non-empty names are used).
RECURSIVE ParseLines(_, _)
ParseLines(lines, acc) ==
    IF lines = << >> THEN acc
    ELSE LET line == Strip(Head(lines))
             loaded == JsonLoads(Strip(Tail(line)))
         IN IF StartsWith(line, EV)
              THEN ParseLines(Tail(lines), [acc EXCEPT !.event_type = Strip(Tail(line))])
            ELSE IF StartsWith(line, DA)
              THEN ParseLines(Tail(lines),
                     [acc EXCEPT !.event_data =
                         IF loaded.ok THEN loaded.v
                         ELSE JDict([raw |-> Strip(Tail(line))])])
            ELSE ParseLines(Tail(lines), acc)

\* event_type that is not reset per chunk: it keeps the name of an earlier chunk
NoFieldsKept == [event_type |-> Str("TOOL_RESULT"), event_data |-> JNull]

NoFields == [event_type |-> << >>, event_data |-> JNull]

\* event_str.startswith('data: "')
IsWrapped(event_str) ==
    Len(event_str) >= 3 /\ event_str[1] = DA /\ event_str[2] = SP /\ IsStr(event_str[3])

ParseChunk(event_str) ==
    IF IsWrapped(event_str)
    THEN LET inner == JsonLoads(SubSeq(event_str, 3, Len(event_str)))
         IN IF inner.ok /\ IsStr(inner.v)
            THEN ParseLines(SplitLines(inner.v.js), NoFields)
            ELSE NoFields
    ELSE ParseLines(SplitLines(Strip(event_str)), NoFields)

\* The result of one call: the events pushed, the value returned, and the
\* exception raised ("" when none).
Result(push, ret, exc) == [push |-> push, ret |-> ret, exc |-> exc]

\* _process_event without the translation: the upstream name and payload
\* are pushed as they are
RemapUntranslated(event_type, event_data, last_content) ==
    IF event_type = << >> \/ ~Truthy(event_data)
      THEN Result(<< >>, last_content, "")
    ELSE Result(<<StreamEvent(event_type[1].c, event_data)>>, last_content, "")

\* the branches on event_type (lines 262-293)
Remap(event_type, event_data, last_content) ==
    IF event_type = << >> \/ ~Truthy(event_data)
      THEN Result(<< >>, last_content, "")
    ELSE IF event_type \notin {Str("TOOL_CALL"), Str("TOOL_RESULT"), Str("LLM_RESPONSE"),
                               Str("AGENT_END"), Str("ERROR")}
      THEN Result(<< >>, last_content, "")
    ELSE IF event_type = Str("ERROR")
      THEN Result(<<StreamEvent("error", event_data)>>, last_content, "")
    ELSE IF ~IsDict(event_data)
      THEN Result(<< >>, last_content, "AttributeError")
    ELSE LET d == event_data.jd
             content == Get(d, "content", << >>)
             output == Get(d, "output", << >>)
         IN IF event_type = Str("TOOL_CALL")
              THEN Result(<<StreamEvent("tool_start",
                              JDict([tool |-> Get(d, "tool", Str("unknown")),
                                     args |-> Get(d, "args", EmptyDict)]))>>,
                          last_content, "")
            ELSE IF event_type = Str("TOOL_RESULT")
              THEN Result(<<StreamEvent("tool_end",
                              JDict([tool |-> Get(d, "tool", Str("unknown")),
                                     result |-> Get(d, "result", << >>)]))>>,
                          last_content, "")
            ELSE IF event_type = Str("LLM_RESPONSE")
              THEN IF content # << >> /\ content # last_content
                   THEN Result(<<StreamEvent("message",
                                   JDict([content |-> content, partial |-> TRUE]))>>,
                               content, "")
                   ELSE Result(<< >>, last_content, "")
            ELSE IF output # << >> /\ output # last_content
                   THEN Result(<<StreamEvent("message",
                                   JDict([content |-> output, final |-> TRUE]))>>,
                               last_content, "")
                   ELSE Result(<< >>, last_content, "")

\* _process_event with an else branch that forwards what it does not map
ProcessEventForwardsRest(event_str, last_content) ==
    IF Strip(event_str) = << >> THEN Result(<< >>, last_content, "")
    ELSE LET f == ParseChunk(event_str)
             r == Remap(f.event_type, f.event_data, last_content)
         IN IF r.push = << >> /\ r.exc = "" /\ f.event_type # << >> /\ Truthy(f.event_data)
              THEN Result(<<StreamEvent("message", f.event_data)>>, last_content, "")
              ELSE r

\* _process_event (lines 223-293)
ProcessEvent(event_str, last_content) ==
    IF Strip(event_str) = << >> THEN Result(<< >>, last_content, "")
    ELSE LET f == ParseChunk(event_str)
         IN Remap(f.event_type, f.event_data, last_content)

-----------------------------------------------------------------------------
(* _process_bedrock_stream: the pieces that run between two awaits *)

\* The caller's last_content after the call of line 190 or 198: the value
\* _process_event returns is not assigned, the local keeps its value.
AfterCall(last_content, ret) == last_content

\* The loop "while '\n\n' in buffer" (lines 188-190).  The pushes of one
\* pass happen without suspension, so the loop is one step of the task.
RECURSIVE Drain(_, _)
Drain(buffer, last_content) ==
    LET i == FindDelim(buffer)
        event_str == SubSeq(buffer, 1, i - 1)
        after == SubSeq(buffer, i + 2, Len(buffer))
        r == ProcessEvent(event_str, last_content)
        d == Drain(after, AfterCall(last_content, r.ret))
    IN IF i = 0 THEN [buffer |-> buffer, push |-> << >>, last |-> last_content, exc |-> ""]
       ELSE IF r.exc # "" THEN [buffer |-> after, push |-> r.push, last |-> last_content, exc |-> r.exc]
       ELSE [buffer |-> d.buffer, push |-> r.push \o d.push, last |-> d.last, exc |-> d.exc]

FinalMessage(content) == StreamEvent("message", JDict([content |-> content, final |-> TRUE]))

\* "Process remaining buffer" (lines 193-212)
Residue(buffer, last_content) ==
    LET p == JsonLoads(buffer)
        content == IF ~p.ok THEN Strip(buffer)
                   ELSE IF IsStr(p.v) THEN p.v.js ELSE PyStr(p.v)
    IN IF Strip(buffer) = << >> THEN Result(<< >>, last_content, "")
       ELSE IF StartsWith(buffer, EV) \/ StartsWith(buffer, DA)
         THEN ProcessEvent(buffer, last_content)
       ELSE Result(<<FinalMessage(content)>>, last_content, "")

\* The whole-body fallback (lines 144-174): what is pushed for full_data
WholeBody(full_data) ==
    LET p == JsonLoads(full_data)
        content == IF ~p.ok THEN full_data
                   ELSE IF IsStr(p.v) THEN p.v.js
                   ELSE IF IsDict(p.v) /\ "output" \in DOMAIN p.v.jd THEN p.v.jd.output
                   ELSE PyStr(p.v)
    IN <<FinalMessage(content)>>

\* "except Exception as e" (lines 214-218): the error event for str(e)
ErrorEvent(e) == StreamEvent("error", JDict([error |-> Str(e)]))

-----------------------------------------------------------------------------
(* Inputs: what the remote agent runtime can answer *)

MaxEvents == 2      \* upstream events in a generated response text
MaxChunk == 2       \* tokens in a fragment that is not the whole remainder

\* One upstream event as the agent runtime writes it:
\* "event: <kind>\ndata: <json>\n\n"
UpEvent(kind, data) == <<EV, SP, Lit(kind), NL, DA, SP, data, NL, NL>>

ContentX == Str("The result is 4.")
ContentY == Str("It is four.")

AGENT_START == UpEvent("AGENT_START", JDict([session_id |-> Str("s1")]))
TOOL_CALL == UpEvent("TOOL_CALL",
                JDict([tool |-> Str("calculator"), args |-> [expression |-> Str("2+2")]]))
TOOL_RESULT == UpEvent("TOOL_RESULT", JDict([tool |-> Str("calculator"), result |-> Str("4")]))
LLM_RESPONSE(content) == UpEvent("LLM_RESPONSE", JDict([content |-> content]))
AGENT_END(output) == UpEvent("AGENT_END", JDict([output |-> output]))
\* a data line that decodes to a str, not a dict: event_data.get raises
LLM_BARE == UpEvent("LLM_RESPONSE", JStr(ContentX))

UpEvents == {TOOL_CALL, LLM_RESPONSE(ContentX), AGENT_END(ContentX), AGENT_END(ContentY), LLM_BARE}

RECURSIVE Concat(_)
Concat(ss) == IF ss = << >> THEN << >> ELSE Head(ss) \o Concat(Tail(ss))

EventTexts == {Concat(es) : es \in UNION {[1..n -> UpEvents] : n \in 0..MaxEvents}}

\* the end-to-end scenario of the specification, section 8
Scenario == Concat(<<AGENT_START, TOOL_CALL, TOOL_RESULT, LLM_RESPONSE(ContentX), AGENT_END(ContentX)>>)

\* a plain-text answer, and an event whose final delimiter never arrives
PlainText == <<Lit("Hello"), SP, Lit("world")>>
Unterminated == SubSeq(LLM_RESPONSE(ContentY), 1, 7)

\* an event whose data holds a character outside ASCII, not escaped
ContentWide == Str("cafe with an acute accent")
LLM_WIDE == <<EV, SP, Lit("LLM_RESPONSE"), NL, DA, SP>>
            \o Wide(JDict([content |-> ContentWide])) \o <<NL, NL>>

\* chunks with one of the two lines only, and the wrapped form of an event
\* (the whole event as one JSON string on a data line)
EventOnly == <<EV, SP, Lit("TOOL_RESULT"), NL, NL>>
DataOnly == <<DA, SP, JDict([tool |-> Str("calculator"), result |-> Str("4")]), NL, NL>>
Wrapped(event) == <<DA, SP, JStr(SubSeq(event, 1, Len(event) - 2)), NL, NL>>

\* a data line that is not JSON
Malformed(kind) == <<EV, SP, Lit(kind), NL, DA, SP, Lit("{oops"), NL, NL>>
RelayKinds == {"TOOL_CALL", "TOOL_RESULT", "LLM_RESPONSE", "AGENT_END", "ERROR"}

ERROR == UpEvent("ERROR", JDict([error |-> Str("boom")]))

\* Events _process_event has no branch for: upstream kinds it does not map
\* and kinds as the agent runtime itself names them, each with a payload
\* that has content and output; and the two mapped kinds with empty text.
OtherKinds == {"AGENT_START", "THINKING", "agent_step", "agent_end"}
IgnoredEvents ==
    {UpEvent(k, JDict([content |-> ContentX, output |-> ContentX])) : k \in OtherKinds}
    \cup {LLM_RESPONSE(<< >>), AGENT_END(<< >>)}
AroundIgnored(event) == LLM_RESPONSE(ContentX) \o event \o AGENT_END(ContentY)

\* the JSON values Python takes for false, as the payload of a mapped kind
FalsyValues == {JDict(EmptyDict), JList(<< >>), JStr(<< >>), JNum(0), JBool(FALSE), JNull}
EventLineOnly == <<EV, SP, Lit("TOOL_CALL"), NL, NL>>
FalsyTexts == {AroundIgnored(UpEvent("TOOL_CALL", v)) : v \in FalsyValues}
    \cup {AroundIgnored(EventLineOnly)}

\* an upstream error whose payload names its text "message", not "error"
ERROR_DETAIL == UpEvent("ERROR", JDict([message |-> Str("rate limited")]))

\* A payload nested almost as deep as the interpreter's recursion limit:
\* json.loads in the producer task decodes it, and json.dumps in the
\* generator, which runs on the deeper stack of its caller, can raise
\* RecursionError on it.
DeepPayload == JDict([a |-> [a |-> [a |-> "and so on, about 960 levels"]]])
DEEP_ERROR == UpEvent("ERROR", DeepPayload)
DeepText == LLM_RESPONSE(ContentX) \o DEEP_ERROR \o AGENT_END(ContentY)

\* the whole SSE text once more encoded as one JSON string
DoubleEncoded(text) == JsonDumps(JStr(text))

\* chunks with one field only, alone and between two well-formed events
SingleField == {EventOnly, DataOnly, Wrapped(TOOL_CALL)}
Neighbours == {<<(<< >>), (<< >>)>>, <<TOOL_CALL, AGENT_END(ContentY)>>}
SingleFieldTexts == {n[1] \o c \o n[2] : c \in SingleField, n \in Neighbours}

EdgeTexts ==
    {LLM_WIDE, ERROR, ERROR_DETAIL, TOOL_RESULT, DeepText, SubSeq(EventOnly, 1, 3)}
    \cup SingleFieldTexts
    \cup {AroundIgnored(e) : e \in IgnoredEvents}
    \cup FalsyTexts
    \cup {Malformed(k) : k \in RelayKinds}
    \cup {DoubleEncoded(t) : t \in EventTexts}

Texts == EventTexts \cup {Scenario, PlainText, Unterminated} \cup EdgeTexts

\* response.get("response"): absent, a body that iterates in chunks
\* (iter_chunks or __aiter__), or a body that only has read()
Body(variant, text) == [variant |-> variant, text |-> text]
NoBody == Body("none", << >>)
Bodies == {NoBody} \cup {Body(v, t) : v \in {"chunked", "whole"}, t \in Texts}

\* The agent runtime's side (src/bedrock/streaming_utils.py).  The members
\* of StreamEventType, by value.
StreamEventType ==
    {"agent_start", "agent_end", "agent_step", "llm_start", "llm_token", "llm_end",
     "tool_start", "tool_progress", "tool_end", "error", "heartbeat"}

\* What the f-string of to_sse writes for event_type.  A plain str is
\* written as it is.  A member of the enum (a str mixed with Enum) is
\* written as its value by interpreters up to 3.10 and as
\* "StreamEventType.<NAME>" from 3.11 on; the repository pins no version.
KindWritten(event_type, as_member) ==
    IF as_member THEN {Lit(event_type), [c |-> event_type, cls |-> "StreamEventType"]}
    ELSE {Lit(event_type)}

\* StreamEvent.to_sse / format_sse_event: the texts it can produce
to_sse(event_type, data, as_member) ==
    {<<EV, SP, k, NL, DA, SP>> \o JsonDumps(data) \o <<NL, NL>> :
        k \in KindWritten(event_type, as_member)}

\* payloads of the round trip, the empty mapping among them
Payloads == {JDict(EmptyDict), JDict([content |-> ContentX])}

RoundTripTexts ==
    UNION {to_sse(k, p, m) : k \in StreamEventType, p \in Payloads, m \in BOOLEAN}

\* the agent output of test_end_to_end_flow, with equal and with different
\* content and output
EndToEnd(content, output) == Concat(<<AGENT_START, LLM_RESPONSE(content), AGENT_END(output)>>)

\* what _read_response_body of the earlier build can return
AssetTexts ==
    Texts \cup RoundTripTexts
    \cup {EndToEnd(ContentX, ContentX), EndToEnd(ContentX, ContentY), Malformed("AGENT_START")}

\* str(e) of the exceptions the remote call and the transport raise
Errors == {"ThrottlingException"}

-----------------------------------------------------------------------------
(* State, one entry per session (one invoke_stream call) *)

VARIABLES
    cpc,            \* where the generator invoke_stream stands
    ppc,            \* where the producer task stands
    queue,          \* callback.queue
    yielded,        \* what invoke_stream has yielded so far
    body,           \* the response body the remote call returned
    rest,           \* the part of the body the transport has not delivered yet
    buffer,         \* buffer of _process_bedrock_stream
    last_content,   \* last_content of _process_bedrock_stream
    pushed,         \* history: every item ever put on the queue
    pexit,          \* history: the path on which the producer left
    cexit,          \* history: how the consumer's loop ended
    apc,            \* where the generator invoke_stream of the earlier build stands
    raw_result,     \* earlier build: raw_result of invoke_stream
    events,         \* earlier build: events, the list parse_sse_events returned
    a_next,         \* earlier build: index of the next entry of events the loop takes
    a_last_content, \* earlier build: last_content of invoke_stream
    a_yielded       \* earlier build: what invoke_stream has yielded so far

\* the state of the queue relay (src/bff/app) and of the earlier build of
\* the service kept under src/bff/cdk/cdk.out (asset.567ed...)
qvars == <<cpc, ppc, queue, yielded, body, rest, buffer, last_content, pushed, pexit, cexit>>
avars == <<apc, raw_result, events, a_next, a_last_content, a_yielded>>
vars == <<qvars, avars>>

Unset == Body("unset", << >>)

InitOn(S) ==
    /\ cpc = [s \in S |-> "init"]
    /\ ppc = [s \in S |-> "idle"]
    /\ queue = [s \in S |-> << >>]
    /\ yielded = [s \in S |-> << >>]
    /\ body = [s \in S |-> Unset]
    /\ rest = [s \in S |-> << >>]
    /\ buffer = [s \in S |-> << >>]
    /\ last_content = [s \in S |-> << >>]
    /\ pushed = [s \in S |-> << >>]
    /\ pexit = [s \in S |-> ""]
    /\ cexit = [s \in S |-> ""]

\* the queue relay when the session is served by the earlier build
NotServing(S) ==
    /\ cpc = [s \in S |-> "off"]
    /\ ppc = [s \in S |-> "idle"]
    /\ queue = [s \in S |-> << >>]
    /\ yielded = [s \in S |-> << >>]
    /\ body = [s \in S |-> Unset]
    /\ rest = [s \in S |-> << >>]
    /\ buffer = [s \in S |-> << >>]
    /\ last_content = [s \in S |-> << >>]
    /\ pushed = [s \in S |-> << >>]
    /\ pexit = [s \in S |-> ""]
    /\ cexit = [s \in S |-> ""]

\* Put as a stack would do it: the new items go to the front
PutFront(s, items) ==
    /\ queue' = [queue EXCEPT ![s] = items \o @]
    /\ pushed' = [pushed EXCEPT ![s] = @ \o items]

\* queue.put of each item in turn; the queue is unbounded, put never waits
Put(s, items) ==
    /\ queue' = [queue EXCEPT ![s] = @ \o items]
    /\ pushed' = [pushed EXCEPT ![s] = @ \o items]

Yield(s, text) == yielded' = [yielded EXCEPT ![s] = Append(@, text)]

-----------------------------------------------------------------------------
(* The producer task, _process_bedrock_stream.  It is suspended only at    *)
(* the awaits on the remote call and the transport; a put on the unbounded *)
(* queue does not suspend, so all pushes between two awaits are one step.  *)
(* ppc: idle (no task), created (not yet run), invoke, read, iter (the     *)
(* await it is suspended at), done (returned), cancelled, failed (ended by *)
(* an exception that left the coroutine).                                  *)

Running == {"invoke", "read", "iter"}

\* Leave with the handler kept on the client object, which the sessions
\* share: the items and the sentinel go to every session's queue
LeaveShared(s, items, path) ==
    /\ queue' = [t \in DOMAIN queue |-> queue[t] \o items \o <<Sentinel>>]
    /\ pushed' = [pushed EXCEPT ![s] = @ \o items \o <<Sentinel>>]
    /\ ppc' = [ppc EXCEPT ![s] = "done"]
    /\ pexit' = [pexit EXCEPT ![s] = path]

\* the producer leaves: what it still pushes, then "finally: end_streaming"
Leave(s, items, path) ==
    /\ Put(s, items \o <<Sentinel>>)
    /\ ppc' = [ppc EXCEPT ![s] = "done"]
    /\ pexit' = [pexit EXCEPT ![s] = path]

\* First step of the task as the code stands.  "import json" at line 152
\* makes json a local name of the whole function, so "json.dumps" at line
\* 96 reads an unbound local: UnboundLocalError is raised before the try
\* block is entered.  Nothing is pushed, not even the sentinel; the task is
\* done, holding the exception.
ProducerFails(s) ==
    /\ ppc[s] = "created"
    /\ ppc' = [ppc EXCEPT ![s] = "failed"]
    /\ pexit' = [pexit EXCEPT ![s] = "unbound"]
    /\ UNCHANGED <<cpc, queue, yielded, body, rest, buffer, last_content, pushed, cexit>>
    /\ UNCHANGED avars

\* The try block (lines 103-221) as a task runs it once line 96 has
\* produced the payload; ProducerStart and the steps below model that code.
\* First: push agent_start, then await the client.
ProducerStart(s) ==
    /\ ppc[s] = "created"
    /\ Put(s, <<StreamEvent("agent_start",
                   JDict([session_id |-> Str(s), status |-> Str("started")]))>>)
    /\ ppc' = [ppc EXCEPT ![s] = "invoke"]
    /\ UNCHANGED <<cpc, yielded, body, rest, buffer, last_content, pexit, cexit>>
    /\ UNCHANGED avars

\* invoke_agent_runtime returns a response, one of answers
InvokeAnswers(s, answers) ==
    /\ ppc[s] = "invoke"
    /\ \E b \in answers :
        /\ body' = [body EXCEPT ![s] = b]
        /\ rest' = [rest EXCEPT ![s] = b.text]
        /\ IF b.variant = "none"
             THEN Leave(s, << >>, "nobody")
             ELSE /\ ppc' = [ppc EXCEPT ![s] = IF b.variant = "chunked" THEN "iter" ELSE "read"]
                  /\ UNCHANGED <<queue, pushed, pexit>>
    /\ UNCHANGED <<cpc, yielded, buffer, last_content, cexit>>
    /\ UNCHANGED avars

InvokeReturns(s) == InvokeAnswers(s, Bodies)

\* TransportRaises with a handler that swallows the exception
TransportRaisesSilent(s) ==
    /\ ppc[s] \in Running
    /\ Leave(s, << >>, "exception")
    /\ UNCHANGED <<cpc, yielded, body, rest, buffer, last_content, cexit>>
    /\ UNCHANGED avars

\* the remote call, read() or the chunk iteration raises an Exception
TransportRaises(s) ==
    /\ ppc[s] \in Running
    /\ \E e \in Errors : Leave(s, <<ErrorEvent(e)>>, "exception")
    /\ UNCHANGED <<cpc, yielded, body, rest, buffer, last_content, cexit>>
    /\ UNCHANGED avars

\* streaming_body.read() returns the whole body
ReadReturns(s) ==
    /\ ppc[s] = "read"
    /\ rest' = [rest EXCEPT ![s] = << >>]
    /\ Leave(s, WholeBody(rest[s]), "whole")
    /\ UNCHANGED <<cpc, yielded, body, buffer, last_content, cexit>>
    /\ UNCHANGED avars

\* the iteration delivers the next fragment, as bytes: it is decoded on
\* its own (line 181), appended to the buffer, and the buffer is drained
ChunkArrives(s) ==
    /\ ppc[s] = "iter"
    /\ \E n \in 1..Len(rest[s]) :
        /\ n <= MaxChunk \/ n = Len(rest[s])
        /\ LET chunk == SubSeq(rest[s], 1, n)
               d == IF Decodes(chunk) THEN Drain(buffer[s] \o chunk, last_content[s])
                    ELSE [buffer |-> buffer[s], push |-> << >>, last |-> last_content[s],
                          exc |-> "UnicodeDecodeError"]
           IN /\ rest' = [rest EXCEPT ![s] = SubSeq(@, n + 1, Len(@))]
              /\ buffer' = [buffer EXCEPT ![s] = d.buffer]
              /\ last_content' = [last_content EXCEPT ![s] = d.last]
              /\ IF d.exc = ""
                   THEN Put(s, d.push) /\ UNCHANGED <<ppc, pexit>>
                   ELSE Leave(s, d.push \o <<ErrorEvent(d.exc)>>, "exception")
    /\ UNCHANGED <<cpc, yielded, body, cexit>>
    /\ UNCHANGED avars

\* the iteration is exhausted
ChunksEnd(s) ==
    /\ ppc[s] = "iter"
    /\ rest[s] = << >>
    /\ LET r == Residue(buffer[s], last_content[s])
       IN IF r.exc = ""
            THEN Leave(s, r.push, "exhausted")
            ELSE Leave(s, r.push \o <<ErrorEvent(r.exc)>>, "exception")
    /\ UNCHANGED <<cpc, yielded, body, rest, buffer, last_content, cexit>>
    /\ UNCHANGED avars

-----------------------------------------------------------------------------
(* The consumer, the async generator invoke_stream.  cpc is the yield or   *)
(* await it is suspended at: y_start (line 309), wait (get_event, line     *)
(* 318), y_event (line 323), y_done (line 325), y_error (line 329).        *)

StartText(s) == SSE("start", JDict([session_id |-> Str(s)]))
DoneText == SSE("done", JDict([status |-> Str("complete")]))
ErrorText(e) == SSE("error", JDict([error |-> Str(e)]))
EventText(event) == SSE(event.event_type, event.data)

\* Finally without the cancel: the producer is left running
FinallyNoCancel(s) == UNCHANGED <<ppc, pexit, queue, pushed>>

\* "finally" (lines 331-337): a producer that is not done is cancelled and
\* awaited.  CancelledError is raised at the await the producer is suspended
\* at; "except Exception" does not catch it, "finally" pushes the sentinel.
\* A task cancelled before its first step never enters the coroutine body.
Finally(s) ==
    IF ppc[s] \in Running
      THEN /\ Put(s, <<Sentinel>>)
           /\ ppc' = [ppc EXCEPT ![s] = "cancelled"]
           /\ pexit' = [pexit EXCEPT ![s] = "cancelled"]
    ELSE IF ppc[s] = "created"
      THEN /\ ppc' = [ppc EXCEPT ![s] = "cancelled"]
           /\ pexit' = [pexit EXCEPT ![s] = "unstarted"]
           /\ UNCHANGED <<queue, pushed>>
    ELSE UNCHANGED <<ppc, pexit, queue, pushed>>

\* Start that creates the handler and yields nothing
StartSilent(s) ==
    /\ cpc[s] = "init"
    /\ cpc' = [cpc EXCEPT ![s] = "y_start"]
    /\ UNCHANGED <<ppc, queue, yielded, body, rest, buffer, last_content, pushed, pexit, cexit>>
    /\ UNCHANGED avars

\* first __anext__: the handler is created and "start" is yielded
Start(s) ==
    /\ cpc[s] = "init"
    /\ Yield(s, StartText(s))
    /\ cpc' = [cpc EXCEPT ![s] = "y_start"]
    /\ UNCHANGED <<ppc, queue, body, rest, buffer, last_content, pushed, pexit, cexit>>
    /\ UNCHANGED avars

\* resumed after "start": create_task, then get_event on the empty queue
Spawn(s) ==
    /\ cpc[s] = "y_start"
    /\ cpc' = [cpc EXCEPT ![s] = "wait"]
    /\ ppc' = [ppc EXCEPT ![s] = "created"]
    /\ UNCHANGED <<queue, yielded, body, rest, buffer, last_content, pushed, pexit, cexit>>
    /\ UNCHANGED avars

\* Dequeue with the done event forgotten after the break
DequeueNoDone(s) ==
    /\ cpc[s] = "wait"
    /\ queue[s] # << >>
    /\ queue' = [queue EXCEPT ![s] = Tail(@)]
    /\ IF Head(queue[s]) = Sentinel
         THEN /\ UNCHANGED yielded
              /\ cpc' = [cpc EXCEPT ![s] = "y_done"]
              /\ cexit' = [cexit EXCEPT ![s] = "sentinel"]
         ELSE /\ Yield(s, EventText(Head(queue[s])))
              /\ cpc' = [cpc EXCEPT ![s] = "y_event"]
              /\ UNCHANGED cexit
    /\ UNCHANGED <<ppc, body, rest, buffer, last_content, pushed, pexit>>
    /\ UNCHANGED avars

\* get_event returns the head of the queue: an event is yielded, the
\* sentinel breaks the loop and "done" is yielded
Dequeue(s) ==
    /\ cpc[s] = "wait"
    /\ queue[s] # << >>
    /\ queue' = [queue EXCEPT ![s] = Tail(@)]
    /\ IF Head(queue[s]) = Sentinel
         THEN /\ Yield(s, DoneText)
              /\ cpc' = [cpc EXCEPT ![s] = "y_done"]
              /\ cexit' = [cexit EXCEPT ![s] = "sentinel"]
         ELSE /\ Yield(s, EventText(Head(queue[s])))
              /\ cpc' = [cpc EXCEPT ![s] = "y_event"]
              /\ UNCHANGED cexit
    /\ UNCHANGED <<ppc, body, rest, buffer, last_content, pushed, pexit>>
    /\ UNCHANGED avars

\* SerializeFails without the handler: the exception leaves the generator
SerializeEscapes(s) ==
    /\ cpc[s] = "wait"
    /\ queue[s] # << >>
    /\ Head(queue[s]) # Sentinel
    /\ Head(queue[s]).data = DeepPayload
    /\ queue' = [queue EXCEPT ![s] = Tail(@)]
    /\ cpc' = [cpc EXCEPT ![s] = "raised"]
    /\ cexit' = [cexit EXCEPT ![s] = "serialize"]
    /\ UNCHANGED <<ppc, yielded, body, rest, buffer, last_content, pushed, pexit>>
    /\ UNCHANGED avars

\* get_event returns an event and json.dumps(event.data) of line 323
\* raises: "except Exception" yields an error event built from str(e)
SerializeFails(s) ==
    /\ cpc[s] = "wait"
    /\ queue[s] # << >>
    /\ Head(queue[s]) # Sentinel
    /\ Head(queue[s]).data = DeepPayload
    /\ queue' = [queue EXCEPT ![s] = Tail(@)]
    /\ Yield(s, ErrorText("RecursionError"))
    /\ cpc' = [cpc EXCEPT ![s] = "y_error"]
    /\ cexit' = [cexit EXCEPT ![s] = "serialize"]
    /\ UNCHANGED <<ppc, body, rest, buffer, last_content, pushed, pexit>>
    /\ UNCHANGED avars

\* Timeout that returns from the generator instead of breaking the loop
TimeoutSilent(s) ==
    /\ cpc[s] = "wait"
    /\ queue[s] = << >>
    /\ ppc[s] # "created"
    /\ Finally(s)
    /\ cpc' = [cpc EXCEPT ![s] = "finished"]
    /\ cexit' = [cexit EXCEPT ![s] = "timeout"]
    /\ UNCHANGED <<yielded, body, rest, buffer, last_content>>
    /\ UNCHANGED avars

\* wait_for times out on the empty queue: get_event returns None, which the
\* loop takes for the sentinel.  The event loop runs the first step of the
\* new task before any timer or cancellation can wake the consumer.
Timeout(s) ==
    /\ cpc[s] = "wait"
    /\ queue[s] = << >>
    /\ ppc[s] # "created"
    /\ Yield(s, DoneText)
    /\ cpc' = [cpc EXCEPT ![s] = "y_done"]
    /\ cexit' = [cexit EXCEPT ![s] = "timeout"]
    /\ UNCHANGED <<ppc, queue, body, rest, buffer, last_content, pushed, pexit>>
    /\ UNCHANGED avars

\* Resume without the loop: the generator returns after its first event
ResumeReturns(s) ==
    /\ cpc[s] = "y_event"
    /\ Finally(s)
    /\ cpc' = [cpc EXCEPT ![s] = "finished"]
    /\ UNCHANGED <<yielded, body, rest, buffer, last_content, cexit>>
    /\ UNCHANGED avars

\* resumed after an event: back to get_event
Resume(s) ==
    /\ cpc[s] = "y_event"
    /\ cpc' = [cpc EXCEPT ![s] = "wait"]
    /\ UNCHANGED <<ppc, queue, yielded, body, rest, buffer, last_content, pushed, pexit, cexit>>
    /\ UNCHANGED avars

\* an Exception inside the try block (thrown in at the yield of line 323):
\* "except Exception" yields an error event
ConsumerRaises(s) ==
    /\ cpc[s] = "y_event"
    /\ \E e \in Errors : Yield(s, ErrorText(e))
    /\ cpc' = [cpc EXCEPT ![s] = "y_error"]
    /\ cexit' = [cexit EXCEPT ![s] = "exception"]
    /\ UNCHANGED <<ppc, queue, body, rest, buffer, last_content, pushed, pexit>>
    /\ UNCHANGED avars

\* resumed after "done" or "error": "finally", then the generator returns
Finish(s) ==
    /\ cpc[s] \in {"y_done", "y_error"}
    /\ Finally(s)
    /\ cpc' = [cpc EXCEPT ![s] = "finished"]
    /\ UNCHANGED <<yielded, body, rest, buffer, last_content, cexit>>
    /\ UNCHANGED avars

\* Close without the "finally" block: the task is left as it is
CloseAbandons(s) ==
    /\ cpc[s] \in {"y_start", "y_event", "y_done", "y_error"}
    /\ cpc' = [cpc EXCEPT ![s] = "closed"]
    /\ UNCHANGED <<ppc, queue, yielded, body, rest, buffer, last_content, pushed, pexit, cexit>>
    /\ UNCHANGED avars

\* the caller closes the generator at a yield (aclose): before the task
\* exists nothing is to be done, later "finally" runs
Close(s) ==
    /\ cpc[s] \in {"y_start", "y_event", "y_done", "y_error"}
    /\ IF cpc[s] = "y_start"
         THEN UNCHANGED <<ppc, pexit, queue, pushed>>
         ELSE Finally(s)
    /\ cpc' = [cpc EXCEPT ![s] = "closed"]
    /\ UNCHANGED <<yielded, body, rest, buffer, last_content, cexit>>
    /\ UNCHANGED avars

\* the caller's task is cancelled while the generator waits in get_event
CancelWait(s) ==
    /\ cpc[s] = "wait"
    /\ ppc[s] # "created"
    /\ Finally(s)
    /\ cpc' = [cpc EXCEPT ![s] = "closed"]
    /\ UNCHANGED <<yielded, body, rest, buffer, last_content, cexit>>
    /\ UNCHANGED avars

-----------------------------------------------------------------------------
(* The earlier build of the service, kept as a deployment asset under      *)
(* src/bff/cdk/cdk.out/asset.567ed.../app/services/agent_client.py: it     *)
(* reads the whole response, parses it with parse_sse_events and re-emits  *)
(* the entries from one generator, without a queue or a second task.       *)

\* str.lstrip("\n"), used for the run of newlines that re.split consumes
RECURSIVE SkipNewlines(_)
SkipNewlines(s) == IF s # << >> /\ Head(s) = NL THEN SkipNewlines(Tail(s)) ELSE s

\* re.split(r'\n\n+', content)
RECURSIVE SplitBlank(_)
SplitBlank(content) ==
    LET i == FindDelim(content)
    IN IF i = 0 THEN <<content>>
       ELSE <<SubSeq(content, 1, i - 1)>>
            \o SplitBlank(SkipNewlines(SubSeq(content, i, Len(content))))

\* the loop over event_strings (lines 41-60)
RECURSIVE EventsOf(_)
EventsOf(event_strings) ==
    IF event_strings = << >> THEN << >>
    ELSE LET event_str == Head(event_strings)
             f == ParseLines(SplitLines(Strip(event_str)), NoFields)
         IN (IF Strip(event_str) # << >> /\ f.event_type # << >> /\ Truthy(f.event_data)
               THEN <<[event |-> f.event_type, data |-> f.event_data]>>
               ELSE << >>)
            \o EventsOf(Tail(event_strings))

\* parse_sse_events with events.insert(0, ...) in place of events.append:
\* the entries come out newest first
parse_sse_events_newest_first(raw_response) ==
    LET stripped == Strip(raw_response)
        decoded == JsonLoads(stripped)
        content == IF decoded.ok /\ IsStr(decoded.v) THEN decoded.v.js ELSE stripped
        evs == EventsOf(SplitBlank(content))
    IN [i \in 1..Len(evs) |-> evs[Len(evs) + 1 - i]]

\* parse_sse_events (lines 17-62)
parse_sse_events(raw_response) ==
    LET stripped == Strip(raw_response)
        decoded == JsonLoads(stripped)
        content == IF decoded.ok /\ IsStr(decoded.v) THEN decoded.v.js ELSE stripped
    IN EventsOf(SplitBlank(content))

\* The loop "for event in events" (lines 212-241) from entry i up to its
\* next yield: what is yielded (at = "yield"), or that data.get raised
\* (at = "raise"), or that the list is exhausted (at = "end").  last_content
\* starts as None, which is modelled as the empty str: it is only compared
\* with a non-empty output.
\* "if output:", the test of the re-emission simulated in test_streaming.py
EmitsOutputAlways(output, last) == output # << >>

\* "if output and output != last_content" (line 236)
EmitsOutput(output, last) == output # << >> /\ output # last

RECURSIVE AssetLoop(_, _, _)
AssetLoop(evs, i, last) ==
    IF i > Len(evs) THEN [at |-> "end", text |-> << >>, next |-> i, last |-> last]
    ELSE LET event_type == evs[i].event
             data == evs[i].data
             content == Get(data.jd, "content", << >>)
             output == Get(data.jd, "output", << >>)
             Yielding(text, l) == [at |-> "yield", text |-> text, next |-> i + 1, last |-> l]
         IN IF event_type = Str("AGENT_START") THEN Yielding(SSE("agent_start", data), last)
            ELSE IF event_type = Str("TOOL_CALL") THEN Yielding(SSE("tool_start", data), last)
            ELSE IF event_type = Str("TOOL_RESULT") THEN Yielding(SSE("tool_end", data), last)
            ELSE IF event_type \notin {Str("LLM_RESPONSE"), Str("AGENT_END"), Str("ERROR")}
              THEN AssetLoop(evs, i + 1, last)
            ELSE IF ~IsDict(data)
              THEN [at |-> "raise", text |-> << >>, next |-> i, last |-> last]
            ELSE IF event_type = Str("LLM_RESPONSE")
              THEN IF content # << >>
                     THEN Yielding(SSE("message", JDict([content |-> content])), content)
                     ELSE AssetLoop(evs, i + 1, last)
            ELSE IF event_type = Str("AGENT_END")
              THEN IF EmitsOutput(output, last)
                     THEN Yielding(SSE("message", JDict([content |-> output])), last)
                     ELSE AssetLoop(evs, i + 1, last)
            ELSE Yielding(SSE("error",
                              JDict([error |-> Get(data.jd, "error", Str("Unknown error"))])), last)

\* "If no events were parsed" (lines 244-255): the message for raw_result
AssetFallback(raw) ==
    LET content == Strip(raw)
        decoded == JsonLoads(content)
    IN SSE("message", JDict([content |-> IF decoded.ok /\ IsStr(decoded.v)
                                            THEN decoded.v.js ELSE content]))

\* _read_response_body of a response without "response" and "body": str(response)
ReprOfResponse == PyStr(JDict(EmptyDict))

\* the earlier build before its invoke_stream is called (at = "init"), or
\* not serving the session at all (at = "off")
AssetInitOn(S, at) ==
    /\ apc = [s \in S |-> at]
    /\ raw_result = [s \in S |-> << >>]
    /\ events = [s \in S |-> << >>]
    /\ a_next = [s \in S |-> 1]
    /\ a_last_content = [s \in S |-> << >>]
    /\ a_yielded = [s \in S |-> << >>]

AssetYield(s, text) == a_yielded' = [a_yielded EXCEPT ![s] = Append(@, text)]

\* run the generator from entry i of evs to its next yield
AssetRun(s, raw, evs, i, last) ==
    LET r == AssetLoop(evs, i, last)
    IN /\ a_next' = [a_next EXCEPT ![s] = r.next]
       /\ a_last_content' = [a_last_content EXCEPT ![s] = r.last]
       /\ IF r.at = "yield"
            THEN AssetYield(s, r.text) /\ apc' = [apc EXCEPT ![s] = "y_event"]
          ELSE IF r.at = "raise"
            THEN AssetYield(s, ErrorText("AttributeError")) /\ apc' = [apc EXCEPT ![s] = "y_error"]
          ELSE IF evs = << >>
            THEN AssetYield(s, AssetFallback(raw)) /\ apc' = [apc EXCEPT ![s] = "y_fallback"]
          ELSE AssetYield(s, DoneText) /\ apc' = [apc EXCEPT ![s] = "y_done"]

\* first __anext__: "start" is yielded (line 190)
AssetStart(s) ==
    /\ apc[s] = "init"
    /\ AssetYield(s, StartText(s))
    /\ apc' = [apc EXCEPT ![s] = "y_start"]
    /\ UNCHANGED <<raw_result, events, a_next, a_last_content>>
    /\ UNCHANGED qvars

\* resumed after "start": the remote call returns, the body is read and
\* parsed, the loop runs to its first yield (lines 193-258)
AssetInvoke(s) ==
    /\ apc[s] = "y_start"
    /\ \E raw \in AssetTexts :
        /\ raw_result' = [raw_result EXCEPT ![s] = raw]
        /\ events' = [events EXCEPT ![s] = parse_sse_events(raw)]
        /\ AssetRun(s, raw, parse_sse_events(raw), 1, << >>)
    /\ UNCHANGED qvars

\* the remote call or the read raises: "except Exception" yields an error
AssetInvokeRaises(s) ==
    /\ apc[s] = "y_start"
    /\ \E e \in Errors : AssetYield(s, ErrorText(e))
    /\ apc' = [apc EXCEPT ![s] = "y_error"]
    /\ UNCHANGED <<raw_result, events, a_next, a_last_content>>
    /\ UNCHANGED qvars

\* resumed after an event: the loop goes on to its next yield
AssetResume(s) ==
    /\ apc[s] = "y_event"
    /\ AssetRun(s, raw_result[s], events[s], a_next[s], a_last_content[s])
    /\ UNCHANGED <<raw_result, events>>
    /\ UNCHANGED qvars

\* resumed after the fallback message: "done" is yielded (line 258)
AssetDone(s) ==
    /\ apc[s] = "y_fallback"
    /\ AssetYield(s, DoneText)
    /\ apc' = [apc EXCEPT ![s] = "y_done"]
    /\ UNCHANGED <<raw_result, events, a_next, a_last_content>>
    /\ UNCHANGED qvars

\* resumed after "done" or "error": the generator returns
AssetFinish(s) ==
    /\ apc[s] \in {"y_done", "y_error"}
    /\ apc' = [apc EXCEPT ![s] = "finished"]
    /\ UNCHANGED <<raw_result, events, a_next, a_last_content, a_yielded>>
    /\ UNCHANGED qvars

\* the caller closes the generator at a yield
AssetClose(s) ==
    /\ apc[s] \in {"y_start", "y_event", "y_fallback", "y_done", "y_error"}
    /\ apc' = [apc EXCEPT ![s] = "closed"]
    /\ UNCHANGED <<raw_result, events, a_next, a_last_content, a_yielded>>
    /\ UNCHANGED qvars

-----------------------------------------------------------------------------

\* the sessions of the specification Spec
SessionIds == {"s1"}

\* A session is served by one build of the service: the queue relay of
\* src/bff/app, or the earlier build; the other one stays where it is.
Init ==
    \/ InitOn(SessionIds) /\ AssetInitOn(SessionIds, "off")
    \/ NotServing(SessionIds) /\ AssetInitOn(SessionIds, "init")

Next ==
    \E s \in SessionIds :
        \/ ProducerFails(s)
        \/ ProducerStart(s)
        \/ InvokeReturns(s)
        \/ TransportRaises(s)
        \/ ReadReturns(s)
        \/ ChunkArrives(s)
        \/ ChunksEnd(s)
        \/ Start(s)
        \/ Spawn(s)
        \/ Dequeue(s)
        \/ SerializeFails(s)
        \/ Timeout(s)
        \/ Resume(s)
        \/ ConsumerRaises(s)
        \/ Finish(s)
        \/ Close(s)
        \/ CancelWait(s)
        \/ AssetStart(s)
        \/ AssetInvoke(s)
        \/ AssetInvokeRaises(s)
        \/ AssetResume(s)
        \/ AssetDone(s)
        \/ AssetFinish(s)
        \/ AssetClose(s)

Spec == Init /\ [][Next]_vars

-----------------------------------------------------------------------------
(* Two calls of invoke_stream on the one AgentClient that get_agent_client *)
(* returns, interleaved by the event loop.  Each call creates its own      *)
(* StreamingCallbackHandler (line 307) and its own task (line 312); the    *)
(* client object holds the aioboto3 session, region and ARN only.          *)

SessionsTwo == {"s1", "s2"}

\* what the remote agent answers to each of the two sessions
AnswerOf(s) == IF s = "s1" THEN LLM_RESPONSE(ContentX) ELSE AGENT_END(ContentY)
ConcurrentBodies(s) == {NoBody, Body("chunked", AnswerOf(s)), Body("whole", AnswerOf(s))}

InvokeReturnsConcurrent(s) == InvokeAnswers(s, ConcurrentBodies(s))

InitTwo == InitOn(SessionsTwo) /\ AssetInitOn(SessionsTwo, "off")

NextTwo ==
    \E s \in SessionsTwo :
        \/ ProducerFails(s)
        \/ ProducerStart(s)
        \/ InvokeReturnsConcurrent(s)
        \/ TransportRaises(s)
        \/ ReadReturns(s)
        \/ ChunkArrives(s)
        \/ ChunksEnd(s)
        \/ Start(s)
        \/ Spawn(s)
        \/ Dequeue(s)
        \/ Timeout(s)
        \/ Resume(s)
        \/ ConsumerRaises(s)
        \/ Finish(s)
        \/ Close(s)
        \/ CancelWait(s)

SpecTwo == InitTwo /\ [][NextTwo]_vars

-----------------------------------------------------------------------------
(* One call of invoke_stream on the queue relay whose caller keeps pulling: *)
(* it neither closes the generator, nor is cancelled, nor throws into it.   *)
(* The event loop runs every task that is ready, the remote call returns or *)
(* raises, the transport delivers the next fragment or the end of a finite  *)
(* body, and the timer of wait_for (line 37) fires: each of the two tasks   *)
(* takes a step it can take, which is weak fairness of the producer's steps *)
(* and of the consumer's steps.                                             *)

ProducerStep(s) ==
    \/ ProducerFails(s)
    \/ ProducerStart(s)
    \/ InvokeReturns(s)
    \/ TransportRaises(s)
    \/ ReadReturns(s)
    \/ ChunkArrives(s)
    \/ ChunksEnd(s)

ConsumerStep(s) ==
    \/ Start(s)
    \/ Spawn(s)
    \/ Dequeue(s)
    \/ SerializeFails(s)
    \/ Timeout(s)
    \/ Resume(s)
    \/ Finish(s)

InitLive == InitOn(SessionIds) /\ AssetInitOn(SessionIds, "off")

NextLive ==
    \E s \in SessionIds :
        \/ ProducerFails(s)
        \/ ProducerStart(s)
        \/ InvokeReturns(s)
        \/ TransportRaises(s)
        \/ ReadReturns(s)
        \/ ChunkArrives(s)
        \/ ChunksEnd(s)
        \/ Start(s)
        \/ Spawn(s)
        \/ Dequeue(s)
        \/ SerializeFails(s)
        \/ Timeout(s)
        \/ Resume(s)
        \/ Finish(s)

Fairness == \A s \in SessionIds : WF_vars(ProducerStep(s)) /\ WF_vars(ConsumerStep(s))

SpecLive == InitLive /\ [][NextLive]_vars /\ Fairness

-----------------------------------------------------------------------------
(* Properties *)

Last(q) == q[Len(q)]
IsEvent(item) == item # Sentinel

\* the text of a yielded item, taken apart
KindOf(text) == text[3].c
DataOf(text) == text[7]
IsKind(text, kind) == KindOf(text) = kind
IsMessage(text) == IsKind(text, "message")
IsDone(text) == text = <<EV, SP, Lit("done"), NL, DA, SP, JDict([status |-> Str("complete")]), NL, NL>>
IsError(text) == IsKind(text, "error") /\ IsDict(DataOf(text)) /\ "error" \in DOMAIN DataOf(text).jd

\* the items the consumer has taken off the queue
Consumed(s) == SubSeq(pushed[s], 1, Len(pushed[s]) - Len(queue[s]))

\* C1: sentinel-terminated completion.  Once the consumer has received the
\* sentinel, what it has yielded is the start event, then the text of every
\* event the producer pushed, in order, then one done event; nothing is
\* yielded after that.
C1_SentinelCompletion ==
    \A s \in SessionIds :
        cexit[s] = "sentinel" =>
            LET evs == SelectSeq(pushed[s], IsEvent)
            IN /\ pushed[s] = evs \o <<Sentinel>>
               /\ yielded[s] =
                    <<SSE("start", JDict([session_id |-> Str(s)]))>>
                    \o [i \in 1..Len(evs) |-> SSE(evs[i].event_type, evs[i].data)]
                    \o <<SSE("done", JDict([status |-> Str("complete")]))>>

C1_Witness ==
    /\ cpc["s1"] = "finished"
    /\ cexit["s1"] = "sentinel"
    /\ Len(pushed["s1"]) = 3
    /\ Len(yielded["s1"]) = 4

\* C2: a done event is yielded only after the consumer received the
\* sentinel; a timed-out get_event does not lead to done.
C2_DoneOnlyAfterSentinel ==
    \A s \in SessionIds :
        (\E i \in 1..Len(yielded[s]) : IsDone(yielded[s][i])) => cexit[s] = "sentinel"

\* C3: when the generator is closed or cancelled, the producer task is
\* terminated by the time the close returns, nothing is yielded for it and
\* the producer pushes no error event for it (at most its sentinel).
C3_CancellationPropagates ==
    [][\A s \in SessionIds :
         (cpc[s] # "closed" /\ cpc'[s] = "closed") =>
            /\ ppc'[s] \in {"idle", "done", "cancelled", "failed"}
            /\ yielded'[s] = yielded[s]
            /\ pushed'[s] \in {pushed[s], Append(pushed[s], Sentinel)}]_vars

C3_Witness ==
    /\ cpc["s1"] = "closed"
    /\ ppc["s1"] = "cancelled"
    /\ Len(yielded["s1"]) >= 2
    /\ Last(pushed["s1"]) = Sentinel

\* the message events among what a session has yielded
Messages(s) == SelectSeq(yielded[s], IsMessage)
MessageText(content, flag) ==
    <<EV, SP, Lit("message"), NL, DA, SP,
      JDict(IF flag = "partial" THEN [content |-> content, partial |-> TRUE]
            ELSE [content |-> content, final |-> TRUE]), NL, NL>>

\* C4: de-duplication.  For upstream LLM_RESPONSE(X), AGENT_END(X) read in
\* chunks to its end, the drained stream holds exactly one message, X; for
\* LLM_RESPONSE(X), AGENT_END(Y) it holds two, X then Y.
C4_Deduplication ==
    \A s \in SessionIds :
        (pexit[s] = "exhausted" /\ cexit[s] = "sentinel") =>
            /\ body[s] = Body("chunked", LLM_RESPONSE(ContentX) \o AGENT_END(ContentX))
                 => Messages(s) = <<MessageText(ContentX, "partial")>>
            /\ body[s] = Body("chunked", LLM_RESPONSE(ContentX) \o AGENT_END(ContentY))
                 => Messages(s) = <<MessageText(ContentX, "partial"), MessageText(ContentY, "final")>>

\* C5: the end-to-end scenario, read to its end and drained, yields exactly
\* six events: start,
\* agent_start, tool_start, tool_end, one partial message, done.
C5_EndToEnd ==
    \A s \in SessionIds :
        (body[s] = Body("chunked", Scenario) /\ pexit[s] = "exhausted" /\ cexit[s] = "sentinel") =>
            /\ Len(yielded[s]) = 6
            /\ yielded[s][1] = <<EV, SP, Lit("start"), NL, DA, SP,
                                 JDict([session_id |-> Str("s1")]), NL, NL>>
            /\ IsKind(yielded[s][2], "agent_start")
            /\ yielded[s][3] = <<EV, SP, Lit("tool_start"), NL, DA, SP,
                                 JDict([tool |-> Str("calculator"),
                                        args |-> [expression |-> Str("2+2")]]), NL, NL>>
            /\ yielded[s][4] = <<EV, SP, Lit("tool_end"), NL, DA, SP,
                                 JDict([tool |-> Str("calculator"), result |-> Str("4")]), NL, NL>>
            /\ yielded[s][5] = MessageText(ContentX, "partial")
            /\ IsDone(yielded[s][6])

\* C6: producer errors are data.  When the remote invocation, the transport
\* or the parsing raised (pexit = "exception": raised inside the try block),
\* the last two items the producer pushed are one error event and the sentinel, and a
\* consumer that drains the queue yields every event pushed before the
\* failure, then that error, then done, and nothing else.
C6_ProducerErrorsAreData ==
    \A s \in SessionIds :
        pexit[s] = "exception" =>
            LET n == Len(pushed[s])
                m == Len(yielded[s])
            IN /\ n >= 3
               /\ pushed[s][n] = Sentinel
               /\ pushed[s][n - 1].event_type = "error"
               /\ pushed[s][n - 1].data
                    \in {JDict([error |-> Str(e)]) :
                            e \in Errors \cup {"AttributeError", "UnicodeDecodeError"}}
               /\ \A i \in 1..(n - 1) : pushed[s][i] # Sentinel
               /\ cexit[s] = "sentinel" =>
                    /\ m = n + 1
                    /\ IsError(yielded[s][m - 1])
                    /\ DataOf(yielded[s][m - 1]) = pushed[s][n - 1].data
                    /\ IsDone(yielded[s][m])
                    /\ \A i \in 2..(m - 2) : ~IsDone(yielded[s][i])

C6_Witness ==
    /\ pexit["s1"] = "exception"
    /\ cexit["s1"] = "sentinel"
    /\ cpc["s1"] = "finished"
    /\ Len(yielded["s1"]) >= 5

\* C7: a stream that ran to its end (not closed by the caller) has a done
\* event or an error event as its last item.
C7_EndsWithDoneOrError ==
    \A s \in SessionIds :
        /\ cpc[s] = "finished" =>
             /\ yielded[s] # << >>
             /\ IsDone(Last(yielded[s])) \/ IsError(Last(yielded[s]))
        /\ apc[s] = "finished" =>
             /\ a_yielded[s] # << >>
             /\ IsDone(Last(a_yielded[s])) \/ IsError(Last(a_yielded[s]))

C7_Witness ==
    /\ cpc["s1"] = "finished"
    /\ cexit["s1"] = "timeout"
    /\ IsDone(Last(yielded["s1"]))

\* C8: stall timeout.  After the bounded wait has elapsed on an empty queue,
\* the consumer is waiting again or the last thing it yielded is an error.
C8_StallTimeoutSurfaces ==
    \A s \in SessionIds :
        cexit[s] = "timeout" => (cpc[s] = "wait" \/ IsError(Last(yielded[s])))

C10_OneSentinelLast ==
    \A s \in SessionIds :
        /\ ppc[s] \in {"done", "cancelled", "failed"} =>
             /\ pushed[s] # << >>
             /\ Last(pushed[s]) = Sentinel
             /\ \A i \in 1..(Len(pushed[s]) - 1) : pushed[s][i] # Sentinel
        /\ ppc[s] \notin {"done", "cancelled", "failed"} =>
             \A i \in 1..Len(pushed[s]) : pushed[s][i] # Sentinel

\* C11: the first item a session yields is the start event with the
\* caller's session_id; it is yielded before the producer task exists,
\* before the remote call returns anything and before any event is pushed
\* or re-emitted; no later item is a start event.  Both builds.
C11_StartFirstOnce ==
    \A s \in SessionIds :
        /\ (ppc[s] # "idle" \/ pushed[s] # << >> \/ body[s] # Unset) => yielded[s] # << >>
        /\ yielded[s] # << >> =>
             /\ yielded[s][1] = <<EV, SP, Lit("start"), NL, DA, SP,
                                  JDict([session_id |-> Str(s)]), NL, NL>>
             /\ \A i \in 2..Len(yielded[s]) : ~IsKind(yielded[s][i], "start")
        /\ (raw_result[s] # << >> \/ events[s] # << >> \/ apc[s] \notin {"off", "init"})
             => a_yielded[s] # << >>
        /\ a_yielded[s] # << >> =>
             /\ a_yielded[s][1] = <<EV, SP, Lit("start"), NL, DA, SP,
                                    JDict([session_id |-> Str(s)]), NL, NL>>
             /\ \A i \in 2..Len(a_yielded[s]) : ~IsKind(a_yielded[s][i], "start")

C11_Witness ==
    /\ Len(yielded["s1"]) >= 3
    /\ ppc["s1"] = "done"
    /\ body["s1"].variant = "chunked"

\* the events the buffer loop pushes when text arrives as one fragment
\* (ended: the iteration has ended after it), as the code computes them
OneFragment(text, ended) ==
    LET d == Drain(text, << >>)
        r == Residue(d.buffer, d.last)
    IN IF d.exc # "" THEN d.push \o <<ErrorEvent(d.exc)>>
       ELSE IF ~ended THEN d.push
       ELSE IF r.exc # "" THEN d.push \o r.push \o <<ErrorEvent(r.exc)>>
       ELSE d.push \o r.push

\* the events pushed after agent_start
Parsed(s) == Tail(SelectSeq(pushed[s], IsEvent))
TransportFailed(s) == \E i \in 1..Len(pushed[s]) : \E e \in Errors : pushed[s][i] = ErrorEvent(e)

\* C12: chunk-boundary invariance.  However the transport cuts the text
\* into fragments, the events pushed for the part delivered so far are the
\* events pushed when that part arrives as one fragment.
C12_ChunkBoundaryInvariance ==
    \A s \in SessionIds :
        (body[s].variant = "chunked" /\ ppc[s] \in {"iter", "done"} /\ ~TransportFailed(s)) =>
            LET text == body[s].text
                delivered == SubSeq(text, 1, Len(text) - Len(rest[s]))
            IN IF ppc[s] = "iter" THEN Parsed(s) = OneFragment(delivered, FALSE)
               ELSE IF pexit[s] = "exhausted" THEN Parsed(s) = OneFragment(text, TRUE)
               ELSE Parsed(s) \in {OneFragment(delivered, FALSE), OneFragment(delivered, TRUE)}

\* C13: double-encoding idempotence.  The text json.dumps(T) is parsed to
\* the same events as T: by parse_sse_events, and by the streaming parser
\* of the queue relay.
C13_DoubleEncodingIdempotence ==
    \A s \in SessionIds : \A t \in EventTexts \ {<< >>} :
        /\ (apc[s] \notin {"off", "init", "y_start"} /\ raw_result[s] = DoubleEncoded(t))
             => events[s] = parse_sse_events(t)
        /\ (body[s] = Body("chunked", DoubleEncoded(t)) /\ pexit[s] = "exhausted")
             => Parsed(s) = OneFragment(t, TRUE)

\* the non-empty answers in which no blank line ends an event
NoDelimiterTexts == {t \in AssetTexts : t # << >> /\ FindDelim(t) = 0}

\* C14: no-delimiter fallback.  For a non-empty upstream text without a
\* double newline, read to its end, the relay delivers exactly one message
\* whose content is the text: the queue relay pushes one final message after
\* agent_start, the earlier build yields start, that message, done.
C14_NoDelimiterFallback ==
    \A s \in SessionIds : \A t \in NoDelimiterTexts :
        /\ (body[s] = Body("chunked", t) /\ pexit[s] = "exhausted")
             => Parsed(s) = <<FinalMessage(t)>>
        /\ (raw_result[s] = t /\ apc[s] = "finished")
             => /\ Len(a_yielded[s]) = 3
                /\ IsMessage(a_yielded[s][2])
                /\ DataOf(a_yielded[s][2]).jd.content = t
                /\ IsDone(a_yielded[s][3])

\* well-formed upstream events whose data is a non-empty JSON object, and
\* the runs of them that the answers of the bounds are made of
WellFormed ==
    {AGENT_START, TOOL_CALL, TOOL_RESULT, LLM_RESPONSE(ContentX), LLM_RESPONSE(ContentY),
     AGENT_END(ContentX), AGENT_END(ContentY), ERROR}
WellFormedRuns ==
    UNION {[1..n -> WellFormed] : n \in 1..MaxEvents}
    \cup {<<AGENT_START, TOOL_CALL, TOOL_RESULT, LLM_RESPONSE(ContentX), AGENT_END(ContentX)>>,
          <<AGENT_START, LLM_RESPONSE(ContentX), AGENT_END(ContentX)>>,
          <<AGENT_START, LLM_RESPONSE(ContentX), AGENT_END(ContentY)>>}

\* the name and the data written in one well-formed event
EntryOf(event) == [event |-> <<event[3]>>, data |-> event[7]]

\* C15: parse_sse_events on a text of N well-formed events returns N
\* entries in the order of the text, each with the name and the decoded
\* data of its event.
C15_ParseInOrder ==
    \A s \in SessionIds : \A es \in WellFormedRuns :
        (apc[s] \notin {"off", "init", "y_start"} /\ raw_result[s] = Concat(es)) =>
            events[s] = [i \in 1..Len(es) |-> EntryOf(es[i])]

C15_Witness ==
    /\ apc["s1"] = "finished"
    /\ raw_result["s1"] = Scenario
    /\ Len(events["s1"]) = 5
    /\ events["s1"][2] = [event |-> Str("TOOL_CALL"), data |-> TOOL_CALL[7]]
    /\ events["s1"][5].event = Str("AGENT_END")

\* the payload a data line that is not JSON is recovered as
RawPayload == JDict([raw |-> <<Lit("{oops")>>])

\* C16: malformed data surfaces.  For every upstream kind the relay
\* handles, a chunk whose data line fails JSON decoding raises nothing and
\* is not discarded: one event with the payload {"raw": <the data line>}
\* is delivered (pushed by the queue relay, yielded by the earlier build).
C16_MalformedDataSurfaces ==
    \A s \in SessionIds :
        /\ \A k \in RelayKinds :
            (body[s] = Body("chunked", Malformed(k)) /\ ppc[s] = "done" /\ ~TransportFailed(s))
                => /\ pexit[s] = "exhausted"
                   /\ Len(Parsed(s)) = 1
                   /\ Parsed(s)[1].data = RawPayload
        /\ \A k \in RelayKinds \cup {"AGENT_START"} :
            (raw_result[s] = Malformed(k) /\ apc[s] = "finished")
                => /\ Len(a_yielded[s]) = 3
                   /\ DataOf(a_yielded[s][2]) = RawPayload
                   /\ IsDone(a_yielded[s][3])

\* C17 as stated: a chunk with an event line and no data line, or a data
\* line and no event line, produces no event and no error, and the events
\* of the chunks around it are those of the text without it.
C17_SingleFieldChunkSkipped ==
    \A s \in SessionIds : \A c \in SingleField : \A n \in Neighbours :
        /\ (body[s] = Body("chunked", n[1] \o c \o n[2]) /\ ppc[s] = "done" /\ ~TransportFailed(s))
             => pexit[s] = "exhausted" /\ Parsed(s) = OneFragment(n[1] \o n[2], TRUE)
        /\ (raw_result[s] = n[1] \o c \o n[2] /\ apc[s] \notin {"off", "init", "y_start"})
             => events[s] = parse_sse_events(n[1] \o n[2])

\* C17, amended: the same, except that _process_event of the queue relay
\* decodes a chunk that starts with data: and a JSON string, and relays the
\* event written inside the string in the place of the chunk.
C17_SingleFieldSkippedUnlessWrapped ==
    \A s \in SessionIds : \A c \in SingleField : \A n \in Neighbours :
        /\ (body[s] = Body("chunked", n[1] \o c \o n[2]) /\ ppc[s] = "done" /\ ~TransportFailed(s))
             => /\ pexit[s] = "exhausted"
                /\ Parsed(s) = OneFragment(n[1] \o (IF c = Wrapped(TOOL_CALL) THEN TOOL_CALL ELSE << >>)
                                                \o n[2], TRUE)
        /\ (raw_result[s] = n[1] \o c \o n[2] /\ apc[s] \notin {"off", "init", "y_start"})
             => events[s] = parse_sse_events(n[1] \o n[2])

C17_Witness ==
    /\ body["s1"] = Body("chunked", TOOL_CALL \o DataOnly \o AGENT_END(ContentY))
    /\ pexit["s1"] = "exhausted"
    /\ Len(Parsed("s1")) = 2
    /\ Parsed("s1")[1].event_type = "tool_start"
    /\ Parsed("s1")[2] = FinalMessage(ContentY)

\* what the relay is to push for one upstream event of each kind it handles
Remapped ==
    {<<TOOL_CALL, StreamEvent("tool_start", TOOL_CALL[7])>>,
     <<TOOL_RESULT, StreamEvent("tool_end", TOOL_RESULT[7])>>,
     <<LLM_RESPONSE(ContentX), StreamEvent("message", JDict([content |-> ContentX, partial |-> TRUE]))>>,
     <<AGENT_END(ContentX), StreamEvent("message", JDict([content |-> ContentX, final |-> TRUE]))>>,
     <<AGENT_END(ContentY), StreamEvent("message", JDict([content |-> ContentY, final |-> TRUE]))>>,
     <<ERROR, StreamEvent("error", ERROR[7])>>}

\* C18: event remapping.  The queue relay pushes tool_start for TOOL_CALL,
\* tool_end for TOOL_RESULT, message for LLM_RESPONSE and for AGENT_END,
\* error for ERROR; the message of LLM_RESPONSE holds the content and
\* partial = true, the message of AGENT_END the content and final = true,
\* and nothing else.
C18_EventRemapping ==
    \A s \in SessionIds : \A m \in Remapped :
        (body[s] = Body("chunked", m[1]) /\ ppc[s] = "done" /\ ~TransportFailed(s))
            => pexit[s] = "exhausted" /\ Parsed(s) = <<m[2]>>

C18_Witness ==
    /\ body["s1"] = Body("chunked", LLM_RESPONSE(ContentX))
    /\ pexit["s1"] = "exhausted"
    /\ Parsed("s1") = <<StreamEvent("message", JDict([content |-> ContentX, partial |-> TRUE]))>>
    /\ cpc["s1"] = "finished"
    /\ Len(Messages("s1")) = 1

\* C19: round trip.  For every event kind and every payload mapping, the
\* empty mapping included, the text written by StreamEvent.to_sse or
\* format_sse_event is parsed by parse_sse_events to one entry with the
\* same kind and an equal payload.
C19_RoundTrip ==
    \A s \in SessionIds : \A k \in StreamEventType : \A p \in Payloads : \A m \in BOOLEAN :
        (apc[s] \notin {"off", "init", "y_start"} /\ raw_result[s] \in to_sse(k, p, m))
            => events[s] = <<[event |-> Str(k), data |-> p]>>

\* the frontend events of the flow AGENT_START, LLM_RESPONSE(content),
\* AGENT_END(output); repeated: whether AGENT_END gets a message of its own
Frontend(content, output, both) ==
    <<SSE("start", JDict([session_id |-> Str("s1")])),
      SSE("agent_start", AGENT_START[7]),
      SSE("message", JDict([content |-> content]))>>
    \o (IF both THEN <<SSE("message", JDict([content |-> output]))>> ELSE << >>)
    \o <<SSE("done", JDict([status |-> Str("complete")]))>>

EndToEndCases == {<<ContentX, ContentX>>, <<ContentX, ContentY>>}

C21_TransportVariantEquivalence ==
    \A s \in SessionIds : \A t \in Texts \ {<< >>} :
        (body[s] = Body("whole", t) /\ ppc[s] = "done" /\ pexit[s] = "whole")
            => Parsed(s) = OneFragment(t, TRUE)

\* all that belongs to one session of the queue relay
SessionView(s) ==
    <<cpc[s], ppc[s], queue[s], yielded[s], body[s], rest[s], buffer[s], last_content[s],
      pushed[s], pexit[s], cexit[s]>>

\* what a session may yield: start and agent_start with its own id, a
\* message with the content of its own answer, error, done
OwnText(s, text) ==
    \/ IsKind(text, "start") /\ DataOf(text).jd.session_id = Str(s)
    \/ IsKind(text, "agent_start") /\ DataOf(text).jd.session_id = Str(s)
    \/ IsMessage(text) /\ DataOf(text).jd.content \in {AnswerOf(s)[7].jd[k] : k \in DOMAIN AnswerOf(s)[7].jd}
                                                        \cup {AnswerOf(s)}
    \/ IsError(text)
    \/ IsDone(text)

\* C22: session isolation.  With two calls of invoke_stream interleaved on
\* one client, a session's queue holds exactly what its own producer
\* pushed and its consumer has not taken, all it yields stems from its own
\* id and its own answer, and a step of one session (its sentinel, timeout
\* and cancellation among them) leaves everything of the other unchanged.
C22_SessionIsolation ==
    /\ [](\A s \in SessionsTwo :
            /\ \E n \in 0..Len(pushed[s]) : queue[s] = SubSeq(pushed[s], n + 1, Len(pushed[s]))
            /\ \A i \in 1..Len(yielded[s]) : OwnText(s, yielded[s][i]))
    /\ [][\A s \in SessionsTwo : \A t \in SessionsTwo \ {s} :
            SessionView(s)' # SessionView(s) => SessionView(t)' = SessionView(t)]_vars

\* one session has ended on its sentinel while the other is in mid-stream
C22_Witness ==
    /\ cpc["s1"] = "finished" /\ cexit["s1"] = "sentinel"
    /\ Len(Messages("s1")) = 1
    /\ cpc["s2"] = "wait" /\ ppc["s2"] = "iter" /\ rest["s2"] # << >>
    /\ Len(yielded["s2"]) = 2

C24_ResidueNeverDropped ==
    [][\A s \in SessionIds :
          (ppc[s] = "iter" /\ ppc'[s] = "done" /\ pexit'[s] = "exhausted" /\ buffer[s] # << >>)
              => Len(SelectSeq(pushed'[s], IsEvent)) > Len(SelectSeq(pushed[s], IsEvent))]_vars

\* the downstream vocabulary
Vocabulary == {"start", "agent_start", "tool_start", "tool_end", "message", "error", "done"}

\* text is one SSE event: an event line, a data line holding one JSON
\* document, a blank line
IsOneSse(text) ==
    /\ Len(text) = 9
    /\ SubSeq(text, 1, 2) = <<EV, SP>> /\ SubSeq(text, 4, 6) = <<NL, DA, SP>>
    /\ SubSeq(text, 8, 9) = <<NL, NL>>
    /\ DOMAIN text[3] = {"c"}
    /\ IsJson(text[7])

\* C25: outbound vocabulary.  Every item invoke_stream yields is one SSE
\* event of a kind in the closed set; the payload of every error event has
\* the key error, the payload of every message event the key content.
C25_OutboundVocabulary ==
    \A s \in SessionIds : \A i \in 1..Len(yielded[s]) :
        LET text == yielded[s][i]
        IN /\ IsOneSse(text)
           /\ KindOf(text) \in Vocabulary
           /\ IsKind(text, "error") => IsDict(DataOf(text)) /\ "error" \in DOMAIN DataOf(text).jd
           /\ IsMessage(text) => IsDict(DataOf(text)) /\ "content" \in DOMAIN DataOf(text).jd

\* the agent_start events a text of well-formed events is to give: one for
\* each AGENT_START, with its payload
IsAgentStartEntry(e) == e.event = Str("AGENT_START")
IsAgentStart(text) == IsKind(text, "agent_start")
AgentStartsOf(text) ==
    LET es == SelectSeq(parse_sse_events(text), IsAgentStartEntry)
    IN [i \in 1..Len(es) |-> SSE("agent_start", es[i].data)]

\* C26: an upstream AGENT_START is re-emitted as agent_start with the
\* upstream payload unchanged, and the stream holds exactly one agent_start
\* for each upstream AGENT_START (a stream read to its end, in either
\* build).
C26_AgentStartPassedThrough ==
    \A s \in SessionIds : \A t \in EventTexts \cup {Scenario, EndToEnd(ContentX, ContentY)} :
        /\ (body[s] = Body("chunked", t) /\ pexit[s] = "exhausted" /\ cexit[s] = "sentinel")
             => SelectSeq(yielded[s], IsAgentStart) = AgentStartsOf(t)
        /\ (raw_result[s] = t /\ apc[s] = "finished" /\ IsDone(Last(a_yielded[s])))
             => SelectSeq(a_yielded[s], IsAgentStart) = AgentStartsOf(t)

\* C27: producer lifetime.  Whenever the generator has finished or has been
\* closed, on whatever path, its producer task is done (returned, ended by
\* its exception, or cancelled and awaited) or was never created; and from
\* then on nothing is put on the session's queue.
C27_ProducerCollected ==
    /\ [](\A s \in SessionIds :
            cpc[s] \in {"finished", "closed"} => ppc[s] \in {"idle", "done", "cancelled", "failed"})
    /\ [][\A s \in SessionIds :
            cpc[s] \in {"finished", "closed"} => pushed'[s] = pushed[s] /\ queue'[s] = queue[s]]_vars

\* the generator has finished after a timeout of get_event and has
\* cancelled a producer that was suspended in the chunk iteration
C27_Witness ==
    /\ cpc["s1"] = "finished" /\ cexit["s1"] = "timeout"
    /\ ppc["s1"] = "cancelled" /\ pexit["s1"] = "cancelled"
    /\ rest["s1"] # << >>

C29_FalsyDataGivesNoEvent ==
    \A s \in SessionIds : \A v \in FalsyValues :
        LET event == UpEvent("TOOL_CALL", v)
        IN /\ (body[s] = Body("chunked", AroundIgnored(event)) /\ ppc[s] = "done" /\ ~TransportFailed(s))
                => /\ pexit[s] = "exhausted"
                   /\ Parsed(s) = OneFragment(AroundIgnored(EventLineOnly), TRUE)
                   /\ Len(Parsed(s)) = 2
                   /\ \A l \in {<< >>, ContentX} :
                        /\ ProcessEvent(SubSeq(event, 1, 7), l) = Result(<< >>, l, "")
                        /\ ProcessEvent(SubSeq(EventLineOnly, 1, 3), l) = Result(<< >>, l, "")
           /\ (raw_result[s] = AroundIgnored(event) /\ apc[s] \notin {"off", "init", "y_start"})
                => /\ events[s] = parse_sse_events(AroundIgnored(EventLineOnly))
                   /\ Len(events[s]) = 2

C29_Witness ==
    /\ body["s1"] = Body("chunked", AroundIgnored(UpEvent("TOOL_CALL", JBool(FALSE))))
    /\ pexit["s1"] = "exhausted"
    /\ cexit["s1"] = "sentinel"
    /\ Len(Messages("s1")) = 2

C29_WitnessEarlierBuild ==
    /\ raw_result["s1"] = AroundIgnored(UpEvent("TOOL_CALL", JList(<< >>)))
    /\ apc["s1"] = "finished"
    /\ Len(events["s1"]) = 2

\* the last text invoke_stream has yielded
LastYielded(s) == yielded[s][Len(yielded[s])]

C30_SlowConsumer ==
    /\ cpc["s1"] = "wait"
    /\ ppc["s1"] = "done"
    /\ body["s1"] = Body("chunked", Scenario)
    /\ queue["s1"] = pushed["s1"]
    /\ Len(queue["s1"]) >= 4

====
